---------------------------- MODULE Spec2Model ----------------------------
(***************************************************************************)
(* A model of the two stateful pieces of sunnygpt:                         *)
(*   - the in-memory fixed-window rate limiter (src/lib/rate-limiter.ts),  *)
(*   - the health-cached AI provider router    (src/lib/ai-client.ts).     *)
(* SpecRL is the rate limiter, SpecAI the router; both share the clock.    *)
(***************************************************************************)
EXTENDS Integers, Sequences, FiniteSets, TLC

VARIABLES
    now,             \* Date.now()
    \* ---- rate-limiter.ts
    rateLimitStore,  \* Map<string, RateLimitEntry>: a function on the stored keys
    config,          \* the RateLimitConfig the caller passes (fixed per run)
    rlReturn,        \* <<>> or <<r>>: the last rateLimit call and what it returned
    winStart,        \* history: per identifier, time of the first call of its window
    winCalls,        \* history: per identifier, calls made in that window
    winAllowed,      \* history: per identifier, calls answered allowed in that window
    noPurgeStore,    \* history: the map as it would be had the sweep never run
    allowedAt,       \* history: per observed identifier, the times of the calls
                     \* answered allowed during the last windowMs (now - windowMs .. now)
    \* ---- ai-client.ts
    healthStatus,    \* APIHealthStatus: api -> [healthy, lastChecked, lastError]
    pc,              \* per getAIResponse invocation: where it is suspended
    geminiHealthy,   \* per invocation: const geminiHealthy   (line 101)
    openRouterHealthy, \* per invocation: const openRouterHealthy (line 102)
    probeNow,        \* per invocation: const now of the getAPIHealth call in flight
    sends,           \* per invocation: the providers whose send was invoked, in order
    failed,          \* per invocation: the providers whose send threw, in order
    outcome,         \* per invocation: what getAIResponse returned or threw
    causes,          \* per invocation: the underlying errors the thrown error carries
    markedAt,        \* history: per api, when a failed send last marked it unhealthy (-1: never)
    lastProbe,       \* history: per api, how its last finished probe request ended
    replies,         \* history: per invocation, how each finished send ended, in order
    \* ---- app/api/chat/route.ts and the database behind prisma
    nChats,          \* chats stored: their ids are 1..nChats, in creation order
    nMessages,       \* per chat id: messages stored; message k is the k-th created
    reqPc,           \* per POST request: where the handler is suspended
    reqBody,         \* per request: what req.json() yields
    reqChat,         \* per request: currentChatId (0: none)
    reqRate,         \* per request: const rateLimitResult (line 34)
    userMsg,         \* per request: the message stored at lines 84-91 (0: none)
    chatHistory,     \* per request: the list handed to getAIResponse (message numbers)
    response,        \* per request: the NextResponse returned
    dbBefore         \* history: per request, the stored chats and messages when it arrived

rlVars == <<rateLimitStore, config, rlReturn, winStart, winCalls, winAllowed,
           noPurgeStore, allowedAt>>
aiVars == <<healthStatus, pc, geminiHealthy, openRouterHealthy, probeNow,
            sends, failed, outcome, causes, markedAt, lastProbe, replies>>
chatVars == <<nChats, nMessages, reqPc, reqBody, reqChat, reqRate, userMsg,
              chatHistory, response, dbBefore>>
vars == <<now, rlVars, aiVars, chatVars>>

(***************************************************************************)
(* Bounds of the model.                                                    *)
(***************************************************************************)
MaxMaxRequests == 2      \* configs with maxRequests in 1..MaxMaxRequests
MaxWindowMs == 2         \* configs with windowMs in 1..MaxWindowMs
MaxRefused == 2          \* calls made beyond maxRequests in one window
MaxTimeRL == 5           \* the rate limiter's clock runs 0..MaxTimeRL
MaxTicksAI == 2          \* clock advances observed by the router
MaxChats == 1            \* chats the database holds
MaxMessages == 12        \* messages one chat holds

Identifiers == {"1.2.3.4", "unknown"}
Apis == {"gemini", "openrouter"}
Invocations == {"r1", "r2"}
ChatRequests == {"r1"}   \* the POST /api/chat requests in flight (SpecChat)
ChatClients == {"1.2.3.4"}
Observed == {"1.2.3.4"}  \* the identifiers whose allowed calls are timed (allowedAt)

(***************************************************************************)
(* rate-limiter.ts                                                         *)
(***************************************************************************)

\* Mutant of IsExpired: the boundary instant already starts a new window.
IsExpired_Inclusive(entry, t) ==
    t >= entry.resetTime

\* line 32: now > entry.resetTime
IsExpired(entry, t) ==
    t > entry.resetTime

\* Mutant of NewResetTime: the window ends one millisecond early.
NewResetTime_Short(t, cfg) ==
    t + cfg.windowMs - 1

\* line 33: const resetTime = now + config.windowMs
NewResetTime(t, cfg) ==
    t + cfg.windowMs

\* Mutant of FreshEntry: the call that opens a window is not counted.
FreshEntry_Uncounted(t, cfg) ==
    [count |-> 0, resetTime |-> NewResetTime(t, cfg)]

\* line 34: { count: 1, resetTime }
FreshEntry(t, cfg) ==
    [count |-> 1, resetTime |-> NewResetTime(t, cfg)]

\* Mutant of Incremented: the increment is lost.
Incremented_Lost(entry) ==
    entry

\* Mutant of Incremented: every counted call pushes the window's end back.
Incremented_Sliding(entry) ==
    [entry EXCEPT !.count = @ + 1, !.resetTime = @ + 1]

\* line 39: entry.count++
Incremented(entry) ==
    [entry EXCEPT !.count = @ + 1]

\* Mutant of Exceeded: the maxRequests-th call is already refused.
Exceeded_AtLimit(entry, cfg) ==
    entry.count >= cfg.maxRequests

\* Mutant of Exceeded: one call too many is let through.
Exceeded_OffByOne(entry, cfg) ==
    entry.count > cfg.maxRequests + 1

\* line 42: entry.count > config.maxRequests
Exceeded(entry, cfg) ==
    entry.count > cfg.maxRequests

\* lines 35, 43, 46: the returned remaining
Remaining(entry, cfg) ==
    IF Exceeded(entry, cfg) THEN 0 ELSE cfg.maxRequests - entry.count

\* lines 29-36: does this call start a new window?
StartsWindow(store, id, t) ==
    id \notin DOMAIN store \/ IsExpired(store[id], t)

\* lines 27-47: the entry rateLimit leaves in the map for id
EntryAfter(store, id, t, cfg) ==
    IF StartsWindow(store, id, t)
    THEN FreshEntry(t, cfg)
    ELSE Incremented(store[id])

\* lines 27-47: the value rateLimit returns
ResultOf(store, id, t, cfg) ==
    LET e == EntryAfter(store, id, t, cfg) IN
    [allowed   |-> ~Exceeded(e, cfg),
     remaining |-> Remaining(e, cfg),
     resetTime |-> e.resetTime]

\* Map.set(key, value)
MapSet(store, id, e) ==
    [k \in DOMAIN store \cup {id} |-> IF k = id THEN e ELSE store[k]]

\* The window of the history variables: it starts with the first call ever or
\* the first call strictly after winStart + windowMs.
HistNewWindow(id) ==
    winCalls[id] = 0 \/ now > winStart[id] + config.windowMs

\* The times of seq that are no more than windowMs before t.
StillInReach(seq, t, cfg) ==
    SelectSeq(seq, LAMBDA u : u >= t - cfg.windowMs)

\* One call rateLimit(id, config) at time now.
rateLimit(id) ==
    LET e == EntryAfter(rateLimitStore, id, now, config)
        r == ResultOf(rateLimitStore, id, now, config)
        had == id \in DOMAIN rateLimitStore
        nth == IF HistNewWindow(id) THEN 1 ELSE winCalls[id] + 1
        nAllowed == (IF HistNewWindow(id) THEN 0 ELSE winAllowed[id])
                    + (IF r.allowed THEN 1 ELSE 0)
    IN  /\ nth <= config.maxRequests + MaxRefused
        /\ rateLimitStore' = MapSet(rateLimitStore, id, e)
        /\ rlReturn' = << [id |-> id, at |-> now,
                           hadEntry |-> had,
                           prevCount |-> IF had THEN rateLimitStore[id].count ELSE 0,
                           prevResetTime |-> IF had THEN rateLimitStore[id].resetTime ELSE 0,
                           count |-> e.count,
                           entryResetTime |-> e.resetTime,
                           nth |-> nth,
                           allowed |-> r.allowed,
                           remaining |-> r.remaining,
                           resetTime |-> r.resetTime] >>
        /\ winStart' = [winStart EXCEPT ![id] = IF HistNewWindow(id) THEN now ELSE @]
        /\ winCalls' = [winCalls EXCEPT ![id] = nth]
        /\ winAllowed' = [winAllowed EXCEPT ![id] = nAllowed]
        /\ noPurgeStore' = MapSet(noPurgeStore, id,
                                  EntryAfter(noPurgeStore, id, now, config))
        /\ allowedAt' = [allowedAt EXCEPT ![id] =
                            IF id \in Observed
                            THEN StillInReach(@, now, config)
                                   \o (IF r.allowed THEN <<now>> ELSE <<>>)
                            ELSE @]
        /\ UNCHANGED <<now, config, aiVars>>

\* Mutant of Swept: an entry is deleted at the last instant of its window.
Swept_Inclusive(entry, t) ==
    t >= entry.resetTime

\* line 16: if (now > entry.resetTime)
Swept(entry, t) ==
    t > entry.resetTime

\* lines 13-20: the periodic sweep deletes the entries with now > resetTime
Purge ==
    /\ rateLimitStore' =
          [k \in {x \in DOMAIN rateLimitStore : ~Swept(rateLimitStore[x], now)}
             |-> rateLimitStore[k]]
    /\ UNCHANGED <<now, config, rlReturn, winStart, winCalls, winAllowed,
                   noPurgeStore, allowedAt, aiVars>>

\* Time passes (1 ms per step) for the rate limiter.
TickRL ==
    /\ now < MaxTimeRL
    /\ now' = now + 1
    /\ allowedAt' = [id \in Identifiers |-> StillInReach(allowedAt[id], now + 1, config)]
    /\ UNCHANGED <<rateLimitStore, config, rlReturn, winStart, winCalls, winAllowed,
                   noPurgeStore, aiVars>>

(***************************************************************************)
(* ai-client.ts                                                            *)
(***************************************************************************)

\* line 27
HEALTH_CHECK_CACHE_MS == 30000

\* The router's clock advances in steps of TickMs.
TickMs == 15000

\* What a provider's send can do: reply with text, reply with a structurally
\* valid but empty text, or throw.
SendOutcomes == {"text", "empty", "throw"}

\* What the request of a health probe can do (lines 41, 54): complete or throw.
ProbeOutcomes == {"ok", "throw"}

\* Mutant of CheckHealth: the catch block reports the provider as healthy.
CheckHealth_Optimistic(res) ==
    TRUE

\* lines 36-47 and 52-64: checkGeminiHealth / checkOpenRouterHealth return true
\* when the request completes and false, from the catch block, when it throws
CheckHealth(res) ==
    res = "ok"

\* Mutant of SendFailed: every send is handled like a thrown error.
SendFailed_Always(res) ==
    TRUE

\* Mutant of SendFailed: an empty reply is handled like a thrown error.
SendFailed_OnEmpty(res) ==
    res \in {"throw", "empty"}

\* lines 108-109, 126-127, 139-140, 143-144: the awaited send throws into the
\* catch block; whatever it returns, the empty string included, is returned
SendFailed(res) ==
    res = "throw"

\* lines 28-31
InitialHealth ==
    [a \in Apis |-> [healthy |-> TRUE, lastChecked |-> 0, lastError |-> "undefined"]]

\* Mutant of IsFresh: the comparison is turned around.
IsFresh_Inverted(status, t) ==
    t - status.lastChecked > HEALTH_CHECK_CACHE_MS

\* Mutant of IsFresh: a record exactly HEALTH_CHECK_CACHE_MS old still counts as fresh.
IsFresh_Inclusive(status, t) ==
    t - status.lastChecked <= HEALTH_CHECK_CACHE_MS

\* line 74: now - status.lastChecked < HEALTH_CHECK_CACHE_MS
IsFresh(status, t) ==
    t - status.lastChecked < HEALTH_CHECK_CACHE_MS

\* Mutant of ProbedStatus: the probe's result is not stored.
ProbedStatus_Pessimistic(isHealthy, t) ==
    [healthy |-> FALSE, lastChecked |-> t, lastError |-> "Health check failed"]

\* lines 84-88: the record a finished probe stores
ProbedStatus(isHealthy, t) ==
    [healthy |-> isHealthy,
     lastChecked |-> t,
     lastError |-> IF isHealthy THEN "undefined" ELSE "Health check failed"]

\* Mutant of MarkedUnhealthy: the failure is not recorded.
MarkedUnhealthy_Skipped(status, t) ==
    status

\* Mutant of MarkedUnhealthy: the timestamp is not refreshed.
MarkedUnhealthy_Stale(status, t) ==
    [status EXCEPT !.healthy = FALSE]

\* lines 112-113 and 130-131: healthy = false, lastChecked = Date.now()
MarkedUnhealthy(status, t) ==
    [status EXCEPT !.healthy = FALSE, !.lastChecked = t]

\* Mutant of FirstProvider: a healthy OpenRouter is preferred over a healthy Gemini.
FirstProvider_SecondaryPreferred(gHealthy, oHealthy) ==
    IF oHealthy THEN "openrouter" ELSE "gemini"

\* lines 105, 123, 139: the provider whose send is invoked first
FirstProvider(gHealthy, oHealthy) ==
    IF gHealthy THEN "gemini"
    ELSE IF oHealthy THEN "openrouter"
    ELSE "gemini"

\* Mutant of RetriesOpenRouter: the retry ignores OpenRouter's health.
RetriesOpenRouter_Always(oHealthy) ==
    TRUE

\* line 115: after Gemini failed despite its health check, is OpenRouter tried?
RetriesOpenRouter(oHealthy) ==
    oHealthy

\* Mutant of RetryProvider: the retry goes to the provider that just failed.
RetryProvider_Same ==
    "gemini"

\* line 116: the provider the healthy-Gemini path retries on
RetryProvider ==
    "openrouter"

\* line 143: the second provider of the last-resort path
LastResortFallback ==
    "openrouter"

\* Mutant of ErrorAfterGeminiOnly: the single failure is wrapped as the aggregate.
ErrorAfterGeminiOnly_Aggregate ==
    "AllProvidersFailed"

\* line 118: what the healthy-Gemini path throws when it does not retry
ErrorAfterGeminiOnly ==
    "GeminiError"

\* line 116: what leaves when the retry on OpenRouter throws (no try around it)
ErrorAfterRetry ==
    "OpenRouterError"

\* line 132: what the OpenRouter-only path throws
ErrorAfterOpenRouterOnly ==
    "OpenRouterError"

\* line 146: what the last-resort path throws after both sends failed
ErrorAfterLastResort ==
    "AllProvidersFailed"

\* line 146: new Error('Failed to generate response from any AI provider') is
\* built from the message alone; neither caught error is attached to it
AggregateCauses(geminiError, openRouterError) ==
    <<>>

\* lines 170, 185: the string a successful send returns
ReplyOf(res) ==
    IF res = "empty" THEN "empty" ELSE "text"

\* lines 69-76: getAPIHealth(api) up to its first await, called by invocation i.
\* The cached flag is returned when fresh; otherwise a probe is started and
\* the call suspends at pcProbe.
HealthCall(i, api, pcCached, pcProbe) ==
    IF IsFresh(healthStatus[api], now)
    THEN /\ pc' = [pc EXCEPT ![i] = pcCached]
         /\ IF api = "gemini"
            THEN /\ geminiHealthy' = [geminiHealthy EXCEPT ![i] = healthStatus[api].healthy]
                 /\ UNCHANGED openRouterHealthy
            ELSE /\ openRouterHealthy' = [openRouterHealthy EXCEPT ![i] = healthStatus[api].healthy]
                 /\ UNCHANGED geminiHealthy
         /\ UNCHANGED probeNow
    ELSE /\ pc' = [pc EXCEPT ![i] = pcProbe]
         /\ probeNow' = [probeNow EXCEPT ![i] = now]
         /\ UNCHANGED <<geminiHealthy, openRouterHealthy>>

\* lines 99-101: getAIResponse is invoked and calls getAPIHealth('gemini')
Begin(i) ==
    /\ pc[i] = "idle"
    /\ HealthCall(i, "gemini", "awaitG", "probeG")
    /\ UNCHANGED <<now, rlVars, causes, markedAt, healthStatus, sends, failed, outcome>>
    /\ UNCHANGED <<lastProbe, replies>>

\* lines 79-91 for gemini: the probe's request ends and getAPIHealth resumes
ProbeGeminiDone(i, res) ==
    LET isHealthy == CheckHealth(res) IN
    /\ pc[i] = "probeG"
    /\ healthStatus' = [healthStatus EXCEPT !["gemini"] = ProbedStatus(isHealthy, probeNow[i])]
    /\ geminiHealthy' = [geminiHealthy EXCEPT ![i] = isHealthy]
    /\ lastProbe' = [lastProbe EXCEPT !["gemini"] = res]
    /\ UNCHANGED replies
    /\ pc' = [pc EXCEPT ![i] = "awaitG"]
    /\ UNCHANGED <<now, rlVars, causes, markedAt, openRouterHealthy, probeNow, sends, failed, outcome>>

\* line 102: getAPIHealth('openrouter') is called
CheckOpenRouter(i) ==
    /\ pc[i] = "awaitG"
    /\ HealthCall(i, "openrouter", "awaitO", "probeO")
    /\ UNCHANGED <<now, rlVars, causes, markedAt, healthStatus, sends, failed, outcome>>
    /\ UNCHANGED <<lastProbe, replies>>

\* lines 79-91 for openrouter
ProbeOpenRouterDone(i, res) ==
    LET isHealthy == CheckHealth(res) IN
    /\ pc[i] = "probeO"
    /\ healthStatus' = [healthStatus EXCEPT !["openrouter"] = ProbedStatus(isHealthy, probeNow[i])]
    /\ openRouterHealthy' = [openRouterHealthy EXCEPT ![i] = isHealthy]
    /\ lastProbe' = [lastProbe EXCEPT !["openrouter"] = res]
    /\ UNCHANGED replies
    /\ pc' = [pc EXCEPT ![i] = "awaitO"]
    /\ UNCHANGED <<now, rlVars, causes, markedAt, geminiHealthy, probeNow, sends, failed, outcome>>

\* lines 105-108, 123-126, 137-139: the first send is issued
Route(i) ==
    /\ pc[i] = "awaitO"
    /\ sends' = [sends EXCEPT ![i] =
                    Append(@, FirstProvider(geminiHealthy[i], openRouterHealthy[i]))]
    /\ pc' = [pc EXCEPT ![i] =
                 IF geminiHealthy[i] THEN "sendG"
                 ELSE IF openRouterHealthy[i] THEN "sendO"
                 ELSE "lastG"]
    /\ UNCHANGED <<now, rlVars, causes, markedAt, healthStatus, geminiHealthy, openRouterHealthy,
                   probeNow, failed, outcome>>
    /\ UNCHANGED <<lastProbe, replies>>

\* lines 106-119: the send to Gemini on the healthy-Gemini path completes
GeminiDone(i, res) ==
    /\ pc[i] = "sendG"
    /\ IF ~SendFailed(res)
       THEN /\ outcome' = [outcome EXCEPT ![i] = ReplyOf(res)]
            /\ pc' = [pc EXCEPT ![i] = "done"]
            /\ UNCHANGED <<healthStatus, sends, failed, markedAt>>
       ELSE /\ healthStatus' = [healthStatus EXCEPT
                                  !["gemini"] = MarkedUnhealthy(@, now)]
            /\ markedAt' = [markedAt EXCEPT !["gemini"] = now]
            /\ failed' = [failed EXCEPT ![i] = Append(@, "gemini")]
            /\ IF RetriesOpenRouter(openRouterHealthy[i])
               THEN /\ sends' = [sends EXCEPT ![i] = Append(@, RetryProvider)]
                    /\ pc' = [pc EXCEPT ![i] = "retryO"]
                    /\ UNCHANGED outcome
               ELSE /\ outcome' = [outcome EXCEPT ![i] = ErrorAfterGeminiOnly]
                    /\ pc' = [pc EXCEPT ![i] = "done"]
                    /\ UNCHANGED sends
    /\ UNCHANGED <<now, rlVars, causes, geminiHealthy, openRouterHealthy, probeNow>>
    /\ UNCHANGED lastProbe
    /\ replies' = [replies EXCEPT ![i] = Append(@, res)]

\* line 116: the retry on OpenRouter completes; its error is not caught
RetryDone(i, res) ==
    /\ pc[i] = "retryO"
    /\ IF ~SendFailed(res)
       THEN /\ outcome' = [outcome EXCEPT ![i] = ReplyOf(res)]
            /\ UNCHANGED failed
       ELSE /\ outcome' = [outcome EXCEPT ![i] = ErrorAfterRetry]
            /\ failed' = [failed EXCEPT ![i] = Append(@, RetryProvider)]
    /\ pc' = [pc EXCEPT ![i] = "done"]
    /\ UNCHANGED <<now, rlVars, causes, markedAt, healthStatus, geminiHealthy, openRouterHealthy,
                   probeNow, sends>>
    /\ UNCHANGED lastProbe
    /\ replies' = [replies EXCEPT ![i] = Append(@, res)]

\* lines 124-133: the send to OpenRouter on the Gemini-unhealthy path completes
OpenRouterDone(i, res) ==
    /\ pc[i] = "sendO"
    /\ IF ~SendFailed(res)
       THEN /\ outcome' = [outcome EXCEPT ![i] = ReplyOf(res)]
            /\ UNCHANGED <<healthStatus, failed, markedAt>>
       ELSE /\ healthStatus' = [healthStatus EXCEPT
                                  !["openrouter"] = MarkedUnhealthy(@, now)]
            /\ markedAt' = [markedAt EXCEPT !["openrouter"] = now]
            /\ failed' = [failed EXCEPT ![i] = Append(@, "openrouter")]
            /\ outcome' = [outcome EXCEPT ![i] = ErrorAfterOpenRouterOnly]
    /\ pc' = [pc EXCEPT ![i] = "done"]
    /\ UNCHANGED <<now, rlVars, causes, geminiHealthy, openRouterHealthy, probeNow, sends>>
    /\ UNCHANGED lastProbe
    /\ replies' = [replies EXCEPT ![i] = Append(@, res)]

\* lines 138-142: the last-resort send to Gemini completes
LastGeminiDone(i, res) ==
    /\ pc[i] = "lastG"
    /\ IF ~SendFailed(res)
       THEN /\ outcome' = [outcome EXCEPT ![i] = ReplyOf(res)]
            /\ pc' = [pc EXCEPT ![i] = "done"]
            /\ UNCHANGED <<sends, failed>>
       ELSE /\ failed' = [failed EXCEPT ![i] = Append(@, "gemini")]
            /\ sends' = [sends EXCEPT ![i] = Append(@, LastResortFallback)]
            /\ pc' = [pc EXCEPT ![i] = "lastO"]
            /\ UNCHANGED outcome
    /\ UNCHANGED <<now, rlVars, causes, markedAt, healthStatus, geminiHealthy, openRouterHealthy, probeNow>>
    /\ UNCHANGED lastProbe
    /\ replies' = [replies EXCEPT ![i] = Append(@, res)]

\* lines 143-147: the last-resort send to OpenRouter completes
LastOpenRouterDone(i, res) ==
    /\ pc[i] = "lastO"
    /\ IF ~SendFailed(res)
       THEN /\ outcome' = [outcome EXCEPT ![i] = ReplyOf(res)]
            /\ UNCHANGED <<failed, causes>>
       ELSE /\ outcome' = [outcome EXCEPT ![i] = ErrorAfterLastResort]
            /\ causes' = [causes EXCEPT ![i] = AggregateCauses("GeminiError", "OpenRouterError")]
            /\ failed' = [failed EXCEPT ![i] = Append(@, LastResortFallback)]
    /\ pc' = [pc EXCEPT ![i] = "done"]
    /\ UNCHANGED <<now, rlVars, markedAt, healthStatus, geminiHealthy, openRouterHealthy,
                   probeNow, sends>>
    /\ UNCHANGED lastProbe
    /\ replies' = [replies EXCEPT ![i] = Append(@, res)]

\* The caller has the result; the slot serves the next request.
Return(i) ==
    /\ pc[i] = "done"
    /\ pc' = [pc EXCEPT ![i] = "idle"]
    /\ geminiHealthy' = [geminiHealthy EXCEPT ![i] = FALSE]
    /\ openRouterHealthy' = [openRouterHealthy EXCEPT ![i] = FALSE]
    /\ probeNow' = [probeNow EXCEPT ![i] = 0]
    /\ sends' = [sends EXCEPT ![i] = <<>>]
    /\ failed' = [failed EXCEPT ![i] = <<>>]
    /\ outcome' = [outcome EXCEPT ![i] = "pending"]
    /\ causes' = [causes EXCEPT ![i] = <<>>]
    /\ UNCHANGED <<now, rlVars, markedAt, healthStatus>>
    /\ UNCHANGED lastProbe
    /\ replies' = [replies EXCEPT ![i] = <<>>]

\* Time passes for the router.
TickAI ==
    /\ now < HEALTH_CHECK_CACHE_MS + MaxTicksAI * TickMs
    /\ now' = now + TickMs
    /\ UNCHANGED <<rlVars, aiVars>>

(***************************************************************************)
(* app/api/chat/route.ts: POST /api/chat.  The database is reliable; a     *)
(* request names no chat or a stored one.                                  *)
(***************************************************************************)

\* lines 12-15
RATE_LIMIT_CONFIG ==
    [maxRequests |-> 20, windowMs |-> 60000]

\* line 97: take: 10
TAKE_MESSAGES == 10

\* What req.json() can yield: a body that passes the checks of lines 51-65,
\* one that fails them, or no JSON at all (req.json() throws).
BodyKinds == {"valid", "invalid", "malformed"}

NoRate == [allowed |-> TRUE, remaining |-> -1, resetTime |-> -1]
NoResponse == [status |-> 0, headers |-> {}]

\* rate-limiter.ts lines 49-54: getRateLimitHeaders; each header carries the
\* rendering (decimal, ISO date) of the number paired with it here.
RateLimitHeaders(result) ==
    {<<"X-RateLimit-Remaining", result.remaining>>,
     <<"X-RateLimit-Reset", result.resetTime>>}

\* Mutant of Refused: the result of rateLimit is ignored.
Refused_Never(result) ==
    FALSE

\* line 36: if (!rateLimitResult.allowed)
Refused(result) ==
    ~result.allowed

\* Mutant of IsReply: the assistant message is saved whatever getAIResponse did.
IsReply_Always(out) ==
    TRUE

\* line 108: getAIResponse returned a string (it did not throw)
IsReply(out) ==
    out \in {"text", "empty"}

\* lines 94-98: findMany({ where: { chatId }, orderBy: { createdAt: 'asc' },
\* take: 10 }) on a chat of n messages: the first 10 in creation order.
FindMany(n) ==
    [k \in 1..(IF n < TAKE_MESSAGES THEN n ELSE TAKE_MESSAGES) |-> k]

\* lines 28-45: the request arrives; rateLimit is called before anything else
PostBegin(r, ip, body, chatId) ==
    LET result == ResultOf(rateLimitStore, ip, now, config) IN
    /\ reqPc[r] = "idle"
    /\ chatId = 0 => nChats < MaxChats
    /\ chatId > 0 => nMessages[chatId] + 2 <= MaxMessages
    /\ rateLimit(ip)
    /\ reqRate' = [reqRate EXCEPT ![r] = result]
    /\ reqBody' = [reqBody EXCEPT ![r] = body]
    /\ reqChat' = [reqChat EXCEPT ![r] = chatId]
    /\ dbBefore' = [dbBefore EXCEPT ![r] = [chats |-> nChats, messages |-> nMessages]]
    /\ IF Refused(result)
       THEN /\ response' = [response EXCEPT ![r] =
                              [status |-> 429, headers |-> RateLimitHeaders(result)]]
            /\ reqPc' = [reqPc EXCEPT ![r] = "responded"]
       ELSE /\ reqPc' = [reqPc EXCEPT ![r] = "json"]
            /\ UNCHANGED response
    /\ UNCHANGED <<nChats, nMessages, userMsg, chatHistory>>

\* lines 47-70 and 132-148: the body is read and checked
PostParse(r) ==
    /\ reqPc[r] = "json"
    /\ IF reqBody[r] = "malformed"
       THEN /\ response' = [response EXCEPT ![r] = [status |-> 500, headers |-> {}]]
            /\ reqPc' = [reqPc EXCEPT ![r] = "responded"]
       ELSE IF reqBody[r] = "invalid"
       THEN /\ response' = [response EXCEPT ![r] = [status |-> 400, headers |-> {}]]
            /\ reqPc' = [reqPc EXCEPT ![r] = "responded"]
       ELSE /\ reqPc' = [reqPc EXCEPT ![r] =
                            IF reqChat[r] = 0 THEN "createChat" ELSE "storeUser"]
            /\ UNCHANGED response
    /\ UNCHANGED <<now, rlVars, aiVars, nChats, nMessages, reqBody, reqChat, reqRate,
                   userMsg, chatHistory, dbBefore>>

\* lines 73-81: prisma.chat.create
PostCreateChat(r) ==
    /\ reqPc[r] = "createChat"
    /\ nChats' = nChats + 1
    /\ reqChat' = [reqChat EXCEPT ![r] = nChats + 1]
    /\ reqPc' = [reqPc EXCEPT ![r] = "storeUser"]
    /\ UNCHANGED <<now, rlVars, aiVars, nMessages, reqBody, reqRate, userMsg,
                   chatHistory, response, dbBefore>>

\* lines 84-91: prisma.message.create, role 'user'
PostStoreUser(r) ==
    /\ reqPc[r] = "storeUser"
    /\ nMessages' = [nMessages EXCEPT ![reqChat[r]] = @ + 1]
    /\ userMsg' = [userMsg EXCEPT ![r] = nMessages[reqChat[r]] + 1]
    /\ reqPc' = [reqPc EXCEPT ![r] = "find"]
    /\ UNCHANGED <<now, rlVars, aiVars, nChats, reqBody, reqChat, reqRate,
                   chatHistory, response, dbBefore>>

\* lines 94-104: prisma.message.findMany and the mapping to chatHistory
PostFind(r) ==
    /\ reqPc[r] = "find"
    /\ chatHistory' = [chatHistory EXCEPT ![r] = FindMany(nMessages[reqChat[r]])]
    /\ reqPc' = [reqPc EXCEPT ![r] = "callAI"]
    /\ UNCHANGED <<now, rlVars, aiVars, nChats, nMessages, reqBody, reqChat, reqRate,
                   userMsg, response, dbBefore>>

\* line 108: getAIResponse(chatHistory) is invoked
PostCallAI(r) ==
    /\ reqPc[r] = "callAI"
    /\ Begin(r)
    /\ reqPc' = [reqPc EXCEPT ![r] = "ai"]
    /\ UNCHANGED <<nChats, nMessages, reqBody, reqChat, reqRate, userMsg,
                   chatHistory, response, dbBefore>>

\* lines 108-148: getAIResponse has returned or thrown; the reply is saved
\* and sent, or the catch block answers 500
PostAIDone(r) ==
    /\ reqPc[r] = "ai"
    /\ pc[r] = "done"
    /\ IF IsReply(outcome[r])
       THEN /\ nMessages' = [nMessages EXCEPT ![reqChat[r]] = @ + 1]
            /\ response' = [response EXCEPT ![r] =
                              [status |-> 200, headers |-> RateLimitHeaders(reqRate[r])]]
       ELSE /\ response' = [response EXCEPT ![r] = [status |-> 500, headers |-> {}]]
            /\ UNCHANGED nMessages
    /\ reqPc' = [reqPc EXCEPT ![r] = "responded"]
    /\ UNCHANGED <<now, rlVars, aiVars, nChats, reqBody, reqChat, reqRate, userMsg,
                   chatHistory, dbBefore>>

\* The response has been sent; the slot serves the next request.
PostFinish(r) ==
    /\ reqPc[r] = "responded"
    /\ reqPc' = [reqPc EXCEPT ![r] = "idle"]
    /\ reqBody' = [reqBody EXCEPT ![r] = "valid"]
    /\ reqChat' = [reqChat EXCEPT ![r] = 0]
    /\ reqRate' = [reqRate EXCEPT ![r] = NoRate]
    /\ userMsg' = [userMsg EXCEPT ![r] = 0]
    /\ chatHistory' = [chatHistory EXCEPT ![r] = <<>>]
    /\ response' = [response EXCEPT ![r] = NoResponse]
    /\ dbBefore' = [dbBefore EXCEPT ![r] = [chats |-> 0, messages |-> [c \in 1..(MaxChats + 1) |-> 0]]]
    /\ IF pc[r] = "done" THEN Return(r) ELSE UNCHANGED <<now, rlVars, aiVars>>
    /\ UNCHANGED <<nChats, nMessages>>

IdleChat ==
    /\ nChats = 0
    /\ nMessages = [c \in 1..(MaxChats + 1) |-> 0]
    /\ reqPc = [r \in Invocations |-> "idle"]
    /\ reqBody = [r \in Invocations |-> "valid"]
    /\ reqChat = [r \in Invocations |-> 0]
    /\ reqRate = [r \in Invocations |-> NoRate]
    /\ userMsg = [r \in Invocations |-> 0]
    /\ chatHistory = [r \in Invocations |-> <<>>]
    /\ response = [r \in Invocations |-> NoResponse]
    /\ dbBefore = [r \in Invocations |->
                     [chats |-> 0, messages |-> [c \in 1..(MaxChats + 1) |-> 0]]]

IdleAI ==
    /\ healthStatus = InitialHealth
    /\ pc = [i \in Invocations |-> "idle"]
    /\ geminiHealthy = [i \in Invocations |-> FALSE]
    /\ openRouterHealthy = [i \in Invocations |-> FALSE]
    /\ probeNow = [i \in Invocations |-> 0]
    /\ sends = [i \in Invocations |-> <<>>]
    /\ failed = [i \in Invocations |-> <<>>]
    /\ outcome = [i \in Invocations |-> "pending"]
    /\ causes = [i \in Invocations |-> <<>>]
    /\ markedAt = [a \in Apis |-> -1]
    /\ lastProbe = [a \in Apis |-> "none"]
    /\ replies = [i \in Invocations |-> <<>>]

IdleRL ==
    /\ rateLimitStore = <<>>
    /\ config = [maxRequests |-> 1, windowMs |-> 1]
    /\ rlReturn = <<>>
    /\ winStart = [id \in Identifiers |-> 0]
    /\ winCalls = [id \in Identifiers |-> 0]
    /\ winAllowed = [id \in Identifiers |-> 0]
    /\ noPurgeStore = <<>>
    /\ allowedAt = [id \in Identifiers |-> <<>>]

\* The module is loaded long after the epoch: Date.now() >= HEALTH_CHECK_CACHE_MS,
\* so the initial records (lastChecked 0) are stale.
InitAI ==
    /\ now = HEALTH_CHECK_CACHE_MS
    /\ IdleAI
    /\ IdleRL
    /\ IdleChat

NextAI ==
    \/ \E i \in Invocations : Begin(i) /\ UNCHANGED chatVars
    \/ \E i \in Invocations : \E res \in ProbeOutcomes : ProbeGeminiDone(i, res) /\ UNCHANGED chatVars
    \/ \E i \in Invocations : CheckOpenRouter(i) /\ UNCHANGED chatVars
    \/ \E i \in Invocations : \E res \in ProbeOutcomes : ProbeOpenRouterDone(i, res) /\ UNCHANGED chatVars
    \/ \E i \in Invocations : Route(i) /\ UNCHANGED chatVars
    \/ \E i \in Invocations : \E res \in SendOutcomes : GeminiDone(i, res) /\ UNCHANGED chatVars
    \/ \E i \in Invocations : \E res \in SendOutcomes : RetryDone(i, res) /\ UNCHANGED chatVars
    \/ \E i \in Invocations : \E res \in SendOutcomes : OpenRouterDone(i, res) /\ UNCHANGED chatVars
    \/ \E i \in Invocations : \E res \in SendOutcomes : LastGeminiDone(i, res) /\ UNCHANGED chatVars
    \/ \E i \in Invocations : \E res \in SendOutcomes : LastOpenRouterDone(i, res) /\ UNCHANGED chatVars
    \/ \E i \in Invocations : Return(i) /\ UNCHANGED chatVars
    \/ TickAI /\ UNCHANGED chatVars

SpecAI == InitAI /\ [][NextAI]_vars

InitRL ==
    /\ now = 0
    /\ rateLimitStore = <<>>
    /\ config \in [maxRequests : 1..MaxMaxRequests, windowMs : 1..MaxWindowMs]
    /\ rlReturn = <<>>
    /\ winStart = [id \in Identifiers |-> 0]
    /\ winCalls = [id \in Identifiers |-> 0]
    /\ winAllowed = [id \in Identifiers |-> 0]
    /\ noPurgeStore = <<>>
    /\ allowedAt = [id \in Identifiers |-> <<>>]
    /\ IdleAI
    /\ IdleChat

NextRL ==
    \/ \E id \in Identifiers : rateLimit(id) /\ UNCHANGED chatVars
    \/ Purge /\ UNCHANGED chatVars
    \/ TickRL /\ UNCHANGED chatVars

SpecRL == InitRL /\ [][NextRL]_vars

\* The module is loaded; the store is empty and the health records are stale.
InitChat ==
    /\ now = HEALTH_CHECK_CACHE_MS
    /\ rateLimitStore = <<>>
    /\ config = RATE_LIMIT_CONFIG
    /\ rlReturn = <<>>
    /\ winStart = [id \in Identifiers |-> 0]
    /\ winCalls = [id \in Identifiers |-> 0]
    /\ winAllowed = [id \in Identifiers |-> 0]
    /\ noPurgeStore = <<>>
    /\ allowedAt = [id \in Identifiers |-> <<>>]
    /\ IdleAI
    /\ IdleChat

\* A step of getAIResponse made on behalf of request r.
RouterStep(r) ==
    \/ \E res \in ProbeOutcomes : ProbeGeminiDone(r, res)
    \/ CheckOpenRouter(r)
    \/ \E res \in ProbeOutcomes : ProbeOpenRouterDone(r, res)
    \/ Route(r)
    \/ \E res \in SendOutcomes : GeminiDone(r, res)
    \/ \E res \in SendOutcomes : RetryDone(r, res)
    \/ \E res \in SendOutcomes : OpenRouterDone(r, res)
    \/ \E res \in SendOutcomes : LastGeminiDone(r, res)
    \/ \E res \in SendOutcomes : LastOpenRouterDone(r, res)

NextChat ==
    \/ \E r \in ChatRequests : \E ip \in ChatClients : \E body \in BodyKinds :
          \E chatId \in 0..nChats : PostBegin(r, ip, body, chatId)
    \/ \E r \in ChatRequests : PostParse(r)
    \/ \E r \in ChatRequests : PostCreateChat(r)
    \/ \E r \in ChatRequests : PostStoreUser(r)
    \/ \E r \in ChatRequests : PostFind(r)
    \/ \E r \in ChatRequests : PostCallAI(r)
    \/ \E r \in ChatRequests : RouterStep(r) /\ UNCHANGED chatVars
    \/ \E r \in ChatRequests : PostAIDone(r)
    \/ \E r \in ChatRequests : PostFinish(r)

SpecChat == InitChat /\ [][NextChat]_vars

(***************************************************************************)
(* Properties of the rate limiter (checked under SpecRL).                  *)
(***************************************************************************)

\* C1: within one window, every one of the first maxRequests calls of an
\* identifier is allowed, and the i-th of them returns remaining = maxRequests - i.
C1_FirstCallsAllowed ==
    \A k \in DOMAIN rlReturn :
        rlReturn[k].nth <= config.maxRequests
            => /\ rlReturn[k].allowed
               /\ rlReturn[k].remaining = config.maxRequests - rlReturn[k].nth

\* C1 witness: the maxRequests-th call (not the first) of a window was just answered.
C1_Witness ==
    \E k \in DOMAIN rlReturn :
        /\ config.maxRequests >= 2
        /\ rlReturn[k].nth = config.maxRequests
        /\ rlReturn[k].allowed
        /\ rlReturn[k].remaining = 0

\* C2: within one window, the (maxRequests + 1)-th call and every later call
\* returns allowed = false and remaining = 0.
C2_LaterCallsRefused ==
    \A k \in DOMAIN rlReturn :
        rlReturn[k].nth > config.maxRequests
            => /\ ~rlReturn[k].allowed
               /\ rlReturn[k].remaining = 0

\* C2 witness: a call beyond the (maxRequests + 1)-th was refused.
C2_Witness ==
    \E k \in DOMAIN rlReturn :
        /\ rlReturn[k].nth >= config.maxRequests + 2
        /\ ~rlReturn[k].allowed

\* The call found an entry and replaced it by a fresh window.
WasReset(r) ==
    /\ r.count = 1
    /\ r.entryResetTime = r.at + config.windowMs
    /\ r.resetTime = r.at + config.windowMs
    /\ r.allowed
    /\ r.remaining = config.maxRequests - 1

\* The call was counted in the window it found.
WasCounted(r) ==
    /\ r.count = r.prevCount + 1
    /\ r.entryResetTime = r.prevResetTime
    /\ r.resetTime = r.prevResetTime

\* C3: a call that finds an entry resets the window exactly when
\* now > windowResetAt; at now = windowResetAt it is counted in the old window.
C3_ResetIffStrictlyPast ==
    \A k \in DOMAIN rlReturn :
        rlReturn[k].hadEntry
            => /\ (rlReturn[k].at > rlReturn[k].prevResetTime) <=> WasReset(rlReturn[k])
               /\ (rlReturn[k].at <= rlReturn[k].prevResetTime) <=> WasCounted(rlReturn[k])

\* C3 witness: a call arrived exactly at windowResetAt, after refused calls,
\* and was counted in the old window.
C3_Witness ==
    \E k \in DOMAIN rlReturn :
        /\ rlReturn[k].hadEntry
        /\ rlReturn[k].at = rlReturn[k].prevResetTime
        /\ rlReturn[k].prevCount > config.maxRequests
        /\ WasCounted(rlReturn[k])

\* C4: per identifier and window at most maxRequests calls are answered
\* allowed; a call that leaves count > maxRequests is answered allowed = false.
C4_AllowedNeverExceedsMax ==
    /\ \A id \in Identifiers : winAllowed[id] <= config.maxRequests
    /\ \A k \in DOMAIN rlReturn :
          rlReturn[k].count > config.maxRequests => ~rlReturn[k].allowed

\* C4 witness: a window with maxRequests allowed calls and a refused one.
C4_Witness ==
    \E k \in DOMAIN rlReturn :
        /\ winAllowed[rlReturn[k].id] = config.maxRequests
        /\ winCalls[rlReturn[k].id] > config.maxRequests
        /\ rlReturn[k].count > config.maxRequests
        /\ ~rlReturn[k].allowed

\* The smaller of two numbers.
Min(a, b) ==
    IF a < b THEN a ELSE b

\* The step is a call of rateLimit.
IsRateLimitCall ==
    rlReturn' # rlReturn

\* C21: calls of rateLimit for one identifier, made in any order and
\* interleaved with calls for other identifiers and with sweeps, are each
\* counted: of the N calls of a window exactly min(N, maxRequests) are answered
\* allowed, and the stored count is N.
C21_NoCallUndercounted ==
    \A id \in Identifiers :
        /\ winAllowed[id] = Min(winCalls[id], config.maxRequests)
        /\ id \in DOMAIN rateLimitStore => rateLimitStore[id].count = winCalls[id]

\* C21 witness: an identifier has made more than maxRequests >= 2 calls in
\* its window while another identifier was calling too.
C21_Witness ==
    \E id \in Identifiers : \E other \in Identifiers \ {id} :
        /\ config.maxRequests >= 2
        /\ winCalls[id] > config.maxRequests
        /\ id \in DOMAIN rateLimitStore
        /\ rateLimitStore[id].count = winCalls[id]
        /\ other \in DOMAIN rateLimitStore
        /\ winCalls[other] >= 1

\* C22: a sweep deletes only entries with now > resetTime and leaves the
\* others as they are; and every call of rateLimit returns what it returns in
\* the run without sweeps (allowed, remaining and resetTime computed on
\* noPurgeStore, the map no sweep has touched).
C22_PurgeIsUnobservable ==
    [][/\ IsRateLimitCall
            => LET r == rlReturn'[1]
                   q == ResultOf(noPurgeStore, r.id, now, config)
               IN  /\ r.allowed = q.allowed
                   /\ r.remaining = q.remaining
                   /\ r.resetTime = q.resetTime
       /\ (~IsRateLimitCall /\ rateLimitStore' # rateLimitStore)
            => /\ DOMAIN rateLimitStore' \subseteq DOMAIN rateLimitStore
               /\ \A k \in DOMAIN rateLimitStore' :
                     rateLimitStore'[k] = rateLimitStore[k]
               /\ \A k \in DOMAIN rateLimitStore \ DOMAIN rateLimitStore' :
                     now > rateLimitStore[k].resetTime
      ]_vars

\* C22 witness: a call found no entry although the identifier had an allowed
\* call less than windowMs before (its expired entry had been swept), while
\* the map still lacks an entry that the run without sweeps holds.
C22_Witness ==
    \E k \in DOMAIN rlReturn :
        /\ ~rlReturn[k].hadEntry
        /\ rlReturn[k].nth = 1
        /\ rlReturn[k].id \in Observed
        /\ Len(allowedAt[rlReturn[k].id]) >= 2
        /\ DOMAIN rateLimitStore # DOMAIN noPurgeStore

\* C23: a refused call leaves the map as it was except that the caller's
\* count is one higher: the entry's resetTime and every other entry are
\* unchanged.
C23_RefusedOnlyIncrements ==
    [][\A id \in Identifiers :
          (/\ IsRateLimitCall
           /\ rlReturn'[1].id = id
           /\ ~rlReturn'[1].allowed)
              => /\ id \in DOMAIN rateLimitStore
                 /\ rateLimitStore' =
                       [rateLimitStore EXCEPT
                           ![id] = [count |-> rateLimitStore[id].count + 1,
                                    resetTime |-> rateLimitStore[id].resetTime]]
      ]_vars

\* C23 witness: a second refused call in a row, with the other identifier's
\* entry in the map.
C23_Witness ==
    \E k \in DOMAIN rlReturn :
        /\ ~rlReturn[k].allowed
        /\ rlReturn[k].count = config.maxRequests + 2
        /\ rlReturn[k].entryResetTime = rlReturn[k].prevResetTime
        /\ DOMAIN rateLimitStore = Identifiers

\* Call schedules for one identifier: n calls at non-decreasing times 0..T.
Schedules(n, T) ==
    {sq \in [1..n -> 0..T] : \A k \in 1..(n - 1) : sq[k] <= sq[k + 1]}

\* The times of the calls of schedule sq, from its k-th call on, that
\* rateLimit answers allowed when the map is store before the k-th call.
RECURSIVE AllowedTimes(_, _, _, _)
AllowedTimes(store, sq, k, cfg) ==
    IF k > Len(sq)
    THEN <<>>
    ELSE LET r == ResultOf(store, "1.2.3.4", sq[k], cfg)
             after == MapSet(store, "1.2.3.4", EntryAfter(store, "1.2.3.4", sq[k], cfg))
         IN  (IF r.allowed THEN <<sq[k]>> ELSE <<>>)
                \o AllowedTimes(after, sq, k + 1, cfg)

\* The largest number of times of seq that lie in one interval of length w.
Burst(seq, w) ==
    LET inReach(k) == Cardinality({j \in 1..k : seq[j] >= seq[k] - w})
    IN  IF seq = <<>> THEN 0
        ELSE CHOOSE m \in 0..Len(seq) :
                /\ \E k \in DOMAIN seq : inReach(k) = m
                /\ \A k \in DOMAIN seq : inReach(k) <= m

\* C24 as claimed: the allowed calls of an identifier within any interval of
\* length windowMs number at most 2 x maxRequests, and some schedule of calls
\* reaches 2 x maxRequests.
C24_SeamBurstReachesTwiceMax ==
    /\ \A id \in Observed : Len(allowedAt[id]) <= 2 * config.maxRequests
    /\ \E sq \in Schedules(2 * config.maxRequests + 1, config.windowMs + 2) :
          Burst(AllowedTimes(<<>>, sq, 1, config), config.windowMs)
             >= 2 * config.maxRequests

\* C24 amended: the allowed calls of an identifier within any interval of
\* length windowMs number at most 2 x maxRequests - 1 (the call that opens
\* the earlier window lies more than windowMs before the later window).
C24_SeamBurstBelowTwiceMax ==
    \A id \in Observed : Len(allowedAt[id]) <= 2 * config.maxRequests - 1

\* C24 witness: 2 x maxRequests - 1 allowed calls, maxRequests >= 2, within
\* windowMs of the latest of them.
C24_Witness ==
    \E id \in Observed :
        /\ config.maxRequests >= 2
        /\ Len(allowedAt[id]) = 2 * config.maxRequests - 1
        /\ allowedAt[id][1] >= now - config.windowMs

(***************************************************************************)
(* Properties of the router (checked under SpecAI).                        *)
(***************************************************************************)

\* How often provider p occurs in a sequence of providers.
Count(seq, p) ==
    Cardinality({k \in DOMAIN seq : seq[k] = p})

\* Invocation i has issued its first send.
Routed(i) ==
    pc[i] \in {"sendG", "retryO", "sendO", "lastG", "lastO", "done"}

\* The step in which invocation i learns that its send to Gemini, chosen
\* because Gemini was reported healthy, threw.
PrimarySendThrows(i) ==
    /\ pc[i] = "sendG"
    /\ failed'[i] = Append(failed[i], "gemini")

\* C5: Gemini reported healthy and OpenRouter reported unhealthy: the request
\* goes to Gemini and OpenRouter's send is never invoked in the invocation.
C5_HealthyPrimaryOnly ==
    \A i \in Invocations :
        (Routed(i) /\ geminiHealthy[i] /\ ~openRouterHealthy[i])
            => /\ sends[i][1] = "gemini"
               /\ Count(sends[i], "openrouter") = 0

\* C5 witness: such an invocation ended after Gemini's send threw.
C5_Witness ==
    \E i \in Invocations :
        /\ pc[i] = "done"
        /\ geminiHealthy[i] /\ ~openRouterHealthy[i]
        /\ failed[i] = <<"gemini">>

\* C6 as claimed: when the send to a healthy-reported Gemini throws, Gemini is
\* marked unhealthy and OpenRouter's send is invoked exactly once, whatever
\* health was reported for OpenRouter.
C6_AlwaysRetries ==
    [][\A i \in Invocations :
          /\ PrimarySendThrows(i)
                => /\ ~healthStatus'["gemini"].healthy
                   /\ healthStatus'["gemini"].lastChecked = now
                   /\ sends'[i] = <<"gemini", "openrouter">>
          /\ (pc[i] = "retryO" /\ pc'[i] = "done") => sends'[i] = sends[i]
      ]_vars

\* C6 amended: Gemini is marked unhealthy; OpenRouter's send is invoked exactly
\* once if OpenRouter was reported healthy, and not at all otherwise (the
\* invocation then ends with Gemini's error).
C6_RetriesIfSecondaryHealthy ==
    [][\A i \in Invocations :
          /\ PrimarySendThrows(i)
                => /\ ~healthStatus'["gemini"].healthy
                   /\ healthStatus'["gemini"].lastChecked = now
                   /\ openRouterHealthy[i]
                         => /\ sends'[i] = <<"gemini", "openrouter">>
                            /\ pc'[i] = "retryO"
                   /\ ~openRouterHealthy[i]
                         => /\ sends'[i] = <<"gemini">>
                            /\ pc'[i] = "done"
                            /\ outcome'[i] = "GeminiError"
          /\ (pc[i] = "retryO" /\ pc'[i] = "done") => sends'[i] = sends[i]
      ]_vars

\* C6 witness: Gemini's send threw, Gemini is marked unhealthy and the one
\* retry on OpenRouter has completed.
C6_Witness ==
    \E i \in Invocations :
        /\ pc[i] = "done"
        /\ geminiHealthy[i] /\ openRouterHealthy[i]
        /\ sends[i] = <<"gemini", "openrouter">>
        /\ failed[i] = <<"gemini">>
        /\ ~healthStatus["gemini"].healthy

\* C7 as claimed: whenever both sends threw in one invocation, it fails with
\* AllProvidersFailed and made no third send.
C7_BothFailGiveAggregate ==
    \A i \in Invocations :
        (pc[i] = "done" /\ Count(failed[i], "gemini") > 0
                        /\ Count(failed[i], "openrouter") > 0)
            => /\ outcome[i] = "AllProvidersFailed"
               /\ Len(sends[i]) = 2

\* C8: an invocation makes at most two sends and at most one per provider.
C8_AtMostOneSendPerProvider ==
    \A i \in Invocations :
        /\ Len(sends[i]) <= 2
        /\ \A p \in Apis : Count(sends[i], p) <= 1

\* C8 witness: an invocation that made two sends and ended.
C8_Witness ==
    \E i \in Invocations :
        /\ pc[i] = "done"
        /\ Len(sends[i]) = 2
        /\ Len(failed[i]) = 2

\* C9 as claimed: the only error that leaves getAIResponse is AllProvidersFailed.
C9_OnlyAggregateLeaves ==
    \A i \in Invocations :
        outcome[i] \in {"pending", "text", "empty", "AllProvidersFailed"}

\* C10: AllProvidersFailed is raised only when both providers' sends were
\* invoked and both threw.
C10_AggregateOnlyAfterBothFailed ==
    \A i \in Invocations :
        outcome[i] = "AllProvidersFailed"
            => \A p \in Apis : Count(sends[i], p) = 1 /\ Count(failed[i], p) = 1

\* C10 witness: an invocation ended with AllProvidersFailed.
C10_Witness ==
    \E i \in Invocations :
        /\ pc[i] = "done"
        /\ outcome[i] = "AllProvidersFailed"
        /\ failed[i] = <<"gemini", "openrouter">>

\* C11 as claimed: the AllProvidersFailed error carries the underlying error
\* of the first failed provider and that of the second.
C11_AggregateCarriesCauses ==
    \A i \in Invocations :
        outcome[i] = "AllProvidersFailed"
            => causes[i] = <<"GeminiError", "OpenRouterError">>

\* The step in which invocation i calls getAPIHealth('gemini').
GeminiHealthCall(i) ==
    pc[i] = "idle" /\ pc'[i] # "idle"

\* The step in which invocation i calls getAPIHealth('openrouter').
OpenRouterHealthCall(i) ==
    pc[i] = "awaitG" /\ pc'[i] # "awaitG"

\* C12: getAPIHealth(p) called with now - lastChecked(p) < 30000 returns the
\* cached flag, starts no probe and leaves the health records unchanged.
C12_FreshCacheIsReturned ==
    [][\A i \in Invocations :
          /\ (GeminiHealthCall(i)
                /\ now - healthStatus["gemini"].lastChecked < HEALTH_CHECK_CACHE_MS)
                => /\ geminiHealthy'[i] = healthStatus["gemini"].healthy
                   /\ pc'[i] = "awaitG"
                   /\ healthStatus' = healthStatus
          /\ (OpenRouterHealthCall(i)
                /\ now - healthStatus["openrouter"].lastChecked < HEALTH_CHECK_CACHE_MS)
                => /\ openRouterHealthy'[i] = healthStatus["openrouter"].healthy
                   /\ pc'[i] = "awaitO"
                   /\ healthStatus' = healthStatus
      ]_vars

\* C12 witness: an invocation got both flags from the cache (it started no
\* probe), one of them unhealthy.
C12_Witness ==
    \E i \in Invocations :
        /\ pc[i] = "awaitO"
        /\ probeNow[i] = 0
        /\ ~geminiHealthy[i]
        /\ openRouterHealthy[i]

\* C13: getAPIHealth(p) called with now - lastChecked(p) >= 30000 starts a
\* probe instead of returning the cached flag; the finished probe stores its
\* outcome with lastChecked = the now of the call, and that outcome is returned.
C13_StaleCacheIsProbed ==
    [][\A i \in Invocations :
          /\ (GeminiHealthCall(i)
                /\ now - healthStatus["gemini"].lastChecked >= HEALTH_CHECK_CACHE_MS)
                => /\ pc'[i] = "probeG"
                   /\ probeNow'[i] = now
                   /\ geminiHealthy'[i] = geminiHealthy[i]
          /\ (OpenRouterHealthCall(i)
                /\ now - healthStatus["openrouter"].lastChecked >= HEALTH_CHECK_CACHE_MS)
                => /\ pc'[i] = "probeO"
                   /\ probeNow'[i] = now
                   /\ openRouterHealthy'[i] = openRouterHealthy[i]
          /\ (pc[i] = "probeG" /\ pc'[i] # "probeG")
                => /\ healthStatus'["gemini"].lastChecked = probeNow[i]
                   /\ healthStatus'["gemini"].healthy = geminiHealthy'[i]
                   /\ pc'[i] = "awaitG"
          /\ (pc[i] = "probeO" /\ pc'[i] # "probeO")
                => /\ healthStatus'["openrouter"].lastChecked = probeNow[i]
                   /\ healthStatus'["openrouter"].healthy = openRouterHealthy'[i]
                   /\ pc'[i] = "awaitO"
      ]_vars

\* C13 witness: a provider cached as unhealthy by an earlier probe or failure
\* is being probed again because its record is stale.
C13_Witness ==
    \E i \in Invocations :
        /\ pc[i] = "probeG"
        /\ probeNow[i] = now
        /\ ~healthStatus["gemini"].healthy
        /\ healthStatus["gemini"].lastChecked > 0
        /\ now - healthStatus["gemini"].lastChecked >= HEALTH_CHECK_CACHE_MS

\* The error a provider's send throws.
SendError(p) ==
    IF p = "gemini" THEN "GeminiError" ELSE "OpenRouterError"

\* C14 as claimed: after any send fails (first attempt, retry or last resort)
\* the failing provider's record has healthy = false, lastChecked = the time
\* of the failure and lastError = the failure reason.
C14_FailureIsRecorded ==
    [][\A i \in Invocations : \A p \in Apis :
          failed'[i] = Append(failed[i], p)
              => /\ ~healthStatus'[p].healthy
                 /\ healthStatus'[p].lastChecked = now
                 /\ healthStatus'[p].lastError = SendError(p)
      ]_vars

\* C18: the first send goes to Gemini if Gemini was read healthy, else to
\* OpenRouter if OpenRouter was read healthy, else to Gemini; no send is
\* issued before both health values have been read.
C18_SelectionByHealth ==
    \A i \in Invocations :
        /\ pc[i] \in {"idle", "probeG", "awaitG", "probeO", "awaitO"} => sends[i] = <<>>
        /\ Routed(i)
              => sends[i][1] = IF geminiHealthy[i] THEN "gemini"
                               ELSE IF openRouterHealthy[i] THEN "openrouter"
                               ELSE "gemini"

\* C18 witness: both read unhealthy, Gemini tried anyway; and the invocation
\* beside it chose OpenRouter.
C18_Witness ==
    \E i, j \in Invocations :
        /\ Routed(i) /\ ~geminiHealthy[i] /\ ~openRouterHealthy[i]
        /\ sends[i][1] = "gemini"
        /\ Routed(j) /\ ~geminiHealthy[j] /\ openRouterHealthy[j]
        /\ sends[j][1] = "openrouter"

\* The step in which invocation i learns that its send to OpenRouter, chosen
\* first because Gemini was reported unhealthy, threw.
SecondarySendThrows(i) ==
    /\ pc[i] = "sendO"
    /\ failed'[i] = Append(failed[i], "openrouter")

C20_MarkSurvivesOldProbe ==
    [][\A i \in Invocations :
          (/\ GeminiHealthCall(i)
           /\ markedAt["gemini"] >= 0
           /\ now >= markedAt["gemini"]
           /\ now < markedAt["gemini"] + HEALTH_CHECK_CACHE_MS)
              => /\ pc'[i] = "awaitG"
                 /\ ~geminiHealthy'[i]
      ]_vars

\* The probe request of invocation i's getAPIHealth(api) call ends in this step.
ProbeEnds(i, api) ==
    /\ pc[i] = (IF api = "gemini" THEN "probeG" ELSE "probeO")
    /\ pc'[i] # pc[i]

\* What getAPIHealth(api) returned to invocation i.
Reported(i, api) ==
    IF api = "gemini" THEN geminiHealthy[i] ELSE openRouterHealthy[i]

\* C25: when the request of a health probe throws, getAPIHealth completes
\* with false, the record it stores has healthy = false, getAIResponse has
\* thrown nothing and goes on: to the health of OpenRouter after Gemini's
\* probe, to the selection after OpenRouter's.
C25_ProbeFailureIsSwallowed ==
    [][\A i \in Invocations : \A api \in Apis :
          (ProbeEnds(i, api) /\ lastProbe'[api] = "throw")
              => /\ pc'[i] = (IF api = "gemini" THEN "awaitG" ELSE "awaitO")
                 /\ Reported(i, api)' = FALSE
                 /\ ~healthStatus'[api].healthy
                 /\ healthStatus'[api].lastChecked = probeNow[i]
                 /\ outcome'[i] = "pending"
      ]_vars

\* C25 witness: both probes of an invocation threw and the invocation went on
\* to its last-resort send.
C25_Witness ==
    \E i \in Invocations :
        /\ lastProbe = [a \in Apis |-> "throw"]
        /\ ~geminiHealthy[i] /\ ~openRouterHealthy[i]
        /\ pc[i] = "lastG"
        /\ sends[i] = <<"gemini">>

\* C26: a send that ends with an empty reply ends the invocation with the
\* empty string as result: no other send is invoked and no health record
\* changes.
C26_EmptyReplyIsSuccess ==
    [][\A i \in Invocations :
          replies'[i] = Append(replies[i], "empty")
              => /\ outcome'[i] = "empty"
                 /\ pc'[i] = "done"
                 /\ sends'[i] = sends[i]
                 /\ failed'[i] = failed[i]
                 /\ healthStatus' = healthStatus
      ]_vars

\* C26 witness: the healthy-reported Gemini replied with an empty text while
\* OpenRouter was reported healthy too; Gemini is still recorded healthy.
C26_Witness ==
    \E i \in Invocations :
        /\ pc[i] = "done"
        /\ geminiHealthy[i] /\ openRouterHealthy[i]
        /\ replies[i] = <<"empty">>
        /\ sends[i] = <<"gemini">>
        /\ outcome[i] = "empty"
        /\ healthStatus["gemini"].healthy

\* Where an invocation waits for the probe of api.
ProbePc(api) ==
    IF api = "gemini" THEN "probeG" ELSE "probeO"

\* Invocation i starts a probe of api in this step.
ProbeStarts(i, api) ==
    /\ pc[i] # ProbePc(api)
    /\ pc'[i] = ProbePc(api)

\* C27 as claimed: a probe of a provider starts only when no other probe of
\* that provider is in flight and at least 30000 ms have passed since the
\* time its record carries (the start of the last finished probe, or a later
\* mark) and since the last time a failed send marked it unhealthy.
C27_OneProbePerInterval ==
    [][\A i \in Invocations : \A api \in Apis :
          ProbeStarts(i, api)
              => /\ \A j \in Invocations \ {i} : pc[j] # ProbePc(api)
                 /\ now - healthStatus[api].lastChecked >= HEALTH_CHECK_CACHE_MS
                 /\ markedAt[api] >= 0 => now - markedAt[api] >= HEALTH_CHECK_CACHE_MS
      ]_vars

\* A send of invocation i ends with a reply in this step.
SendSucceeds(i) ==
    \E res \in {"text", "empty"} : replies'[i] = Append(replies[i], res)

\* C28: a send that ends with a reply leaves both health records as they
\* are, and a record goes from healthy = false to healthy = true only in the
\* step in which a probe of that provider ends successfully.
C28_SuccessLeavesHealthAlone ==
    [][/\ \A i \in Invocations : SendSucceeds(i) => healthStatus' = healthStatus
       /\ \A api \in Apis :
             (~healthStatus[api].healthy /\ healthStatus'[api].healthy)
                 => \E i \in Invocations :
                       /\ ProbeEnds(i, api)
                       /\ lastProbe'[api] = "ok"
      ]_vars

\* C28 witness: with both providers recorded unhealthy, the last-resort send
\* to Gemini replied, and Gemini is still recorded unhealthy.
C28_Witness ==
    \E i \in Invocations :
        /\ pc[i] = "done"
        /\ ~geminiHealthy[i] /\ ~openRouterHealthy[i]
        /\ sends[i] = <<"gemini">>
        /\ replies[i] = <<"text">>
        /\ outcome[i] = "text"
        /\ ~healthStatus["gemini"].healthy
        /\ ~healthStatus["openrouter"].healthy

\* C29 as claimed: no write to a provider's health record lowers its
\* lastChecked.
C29_LastCheckedNeverDecreases ==
    [][\A api \in Apis :
          healthStatus'[api].lastChecked >= healthStatus[api].lastChecked
      ]_vars

\* Invocation i calls getAPIHealth(api) in this step.
HealthCallOf(i, api) ==
    IF api = "gemini" THEN GeminiHealthCall(i) ELSE OpenRouterHealthCall(i)

\* A probe of api ends in this step, its request having thrown.
ProbeFails(api) ==
    \E j \in Invocations : ProbeEnds(j, api) /\ lastProbe'[api] = "throw"

\* A send to api by some invocation throws in this step.
SendThrows(api) ==
    \E j \in Invocations : failed'[j] = Append(failed[j], api)

\* C30 as claimed: a provider that a failed send marked unhealthy and that a
\* probe started 30000 ms or more after the mark has recorded healthy again
\* stays recorded healthy as long as none of its probes fails.
C30_HealthyFromThenOn ==
    [][\A api \in Apis :
          (/\ markedAt[api] >= 0
           /\ healthStatus[api].healthy
           /\ healthStatus[api].lastChecked >= markedAt[api] + HEALTH_CHECK_CACHE_MS
           /\ ~ProbeFails(api))
              => healthStatus'[api].healthy
      ]_vars

\* C30 amended: a getAPIHealth call on a record that is unhealthy and at
\* least 30000 ms old starts a probe; when a probe's request completes, the
\* provider is recorded healthy (lastChecked the probe's start) and reported
\* healthy to that invocation; an invocation to which Gemini is reported
\* healthy sends to Gemini first; and a record goes from healthy to unhealthy
\* only when a probe of that provider fails or a send to it throws.
C30_RecoversUntilNextFailure ==
    [][\A api \in Apis :
          /\ \A i \in Invocations :
                /\ (/\ HealthCallOf(i, api)
                    /\ ~healthStatus[api].healthy
                    /\ now - healthStatus[api].lastChecked >= HEALTH_CHECK_CACHE_MS)
                       => ProbeStarts(i, api)
                /\ (ProbeEnds(i, api) /\ lastProbe'[api] = "ok")
                       => /\ healthStatus'[api].healthy
                          /\ healthStatus'[api].lastChecked = probeNow[i]
                          /\ Reported(i, api)'
                /\ (pc[i] = "awaitO" /\ pc'[i] # "awaitO" /\ geminiHealthy[i])
                       => sends'[i] = <<"gemini">>
          /\ (healthStatus[api].healthy /\ ~healthStatus'[api].healthy)
                => ProbeFails(api) \/ SendThrows(api)
      ]_vars

\* C30 witness: Gemini, marked unhealthy by a failed send, was probed again
\* 30000 ms or more later, is recorded healthy, and an invocation to which it
\* was reported healthy has been answered by it.
C30_Witness ==
    \E i \in Invocations :
        /\ markedAt["gemini"] >= 0
        /\ healthStatus["gemini"].healthy
        /\ healthStatus["gemini"].lastChecked >= markedAt["gemini"] + HEALTH_CHECK_CACHE_MS
        /\ lastProbe["gemini"] = "ok"
        /\ geminiHealthy[i]
        /\ pc[i] = "done"
        /\ sends[i] = <<"gemini">>
        /\ outcome[i] = "text"

(***************************************************************************)
(* Properties of POST /api/chat (checked under SpecChat).                  *)
(***************************************************************************)

\* The database holds exactly what it held when request r arrived.
DbUntouched(r) ==
    /\ nChats = dbBefore[r].chats
    /\ nMessages = dbBefore[r].messages

\* getAIResponse, called for request r, has thrown.
AIFailed(r) ==
    /\ pc[r] = "done"
    /\ outcome[r] \notin {"pending", "text", "empty"}

\* C15: the rate limiter is consulted before any other step of POST
\* /api/chat: a step that writes to the database, touches a health record or
\* moves the request's getAIResponse call (probe, send) is taken only for a
\* request that rateLimit has allowed; and a request that rateLimit refused
\* is answered 429 with the X-RateLimit-Remaining and X-RateLimit-Reset
\* headers of that result, the database as it was on arrival, no call of
\* getAIResponse begun and no send made.
C15_RateLimitFirst ==
    [][\A r \in ChatRequests :
          /\ (\/ nChats' # nChats
              \/ nMessages' # nMessages
              \/ healthStatus' # healthStatus
              \/ pc'[r] # pc[r]
              \/ sends'[r] # sends[r])
                => /\ reqPc[r] # "idle"
                   /\ reqRate[r] # NoRate
                   /\ reqRate[r].allowed
          /\ (reqPc'[r] # "idle" /\ ~reqRate'[r].allowed)
                => /\ reqPc'[r] = "responded"
                   /\ response'[r].status = 429
                   /\ response'[r].headers = RateLimitHeaders(reqRate'[r])
                   /\ <<"X-RateLimit-Remaining", 0>> \in response'[r].headers
                   /\ <<"X-RateLimit-Reset", winStart["1.2.3.4"] + config.windowMs>>
                         \in response'[r].headers
                   /\ DbUntouched(r)'
                   /\ pc'[r] = "idle"
                   /\ sends'[r] = <<>>
      ]_vars

\* C15 witness: a request over the limit has been answered 429.
C15_Witness ==
    \E r \in ChatRequests :
        /\ reqPc[r] = "responded"
        /\ ~reqRate[r].allowed
        /\ response[r].status = 429
        /\ winCalls["1.2.3.4"] > RATE_LIMIT_CONFIG.maxRequests

\* C16 as claimed: once getAIResponse has failed for a request and the
\* request has been answered, the stored chats and messages are those stored
\* before the request.
C16_NothingPersisted ==
    \A r \in ChatRequests :
        (reqPc[r] = "responded" /\ AIFailed(r)) => DbUntouched(r)

\* C16 amended: once getAIResponse has failed for a request and the request
\* has been answered, the answer is 500 and no assistant message was stored;
\* what the request stored before the call remains: the chat it created (if
\* it named none) and its one user message, the newest of its chat.
C16_OnlyReplyNotPersisted ==
    \A r \in ChatRequests :
        (reqPc[r] = "responded" /\ AIFailed(r))
            => /\ response[r].status = 500
               /\ nChats = dbBefore[r].chats
                             + (IF reqChat[r] > dbBefore[r].chats THEN 1 ELSE 0)
               /\ nMessages = [dbBefore[r].messages EXCEPT ![reqChat[r]] = @ + 1]
               /\ userMsg[r] = nMessages[reqChat[r]]

\* C16 witness: a request to a stored chat has been answered after
\* getAIResponse failed.
C16_Witness ==
    \E r \in ChatRequests :
        /\ reqPc[r] = "responded"
        /\ AIFailed(r)
        /\ dbBefore[r].chats > 0
        /\ reqChat[r] <= dbBefore[r].chats

\* The newest m of messages 1..n, oldest first.
MostRecent(n, m) ==
    [k \in 1..m |-> n - m + k]

\* C17 as claimed: the list handed to getAIResponse is the most recent 10
\* messages of the chat (all of them when it has fewer), oldest first, and
\* the user message this request stored is in it.
C17_HistoryIsMostRecent ==
    \A r \in ChatRequests :
        reqPc[r] \in {"callAI", "ai"}
            => LET n == nMessages[reqChat[r]]
                   m == IF n < TAKE_MESSAGES THEN n ELSE TAKE_MESSAGES
               IN  /\ chatHistory[r] = MostRecent(n, m)
                   /\ \E k \in DOMAIN chatHistory[r] : chatHistory[r][k] = userMsg[r]

=============================================================================
